---- MODULE Spec2Model ----
(***************************************************************************)
(* Model of atomate2's default strain states (common/analysis/elastic.py)  *)
(* and of the ferroelectric jobs (vasp/jobs/ferroelectric.py):             *)
(* interpolate_structures, add_interpolation_flow, get_polarization_output *)
(* and polarization_analysis.                                              *)
(*                                                                         *)
(* A structure is one atom's displacement along axis a (an integer), a     *)
(* dipole is a 3-tuple of integers in tenths of the polarization unit, a   *)
(* zval table is the valence of that single species.  A calculation output *)
(* is a Python dict: a function whose DOMAIN is the set of keys it has.    *)
(* A key that is missing is not in the DOMAIN; a key whose value is None   *)
(* maps to None.                                                           *)
(***************************************************************************)
EXTENDS Integers, Sequences, FiniteSets, TLC

VARIABLES pc, order, strain_states, endpoints, nimages, interp_structures, jobs,
          np_lcalcpol_output, p_lcalcpol_output, interp_lcalcpol_outputs,
          doc, same_branch

vars == <<pc, order, strain_states, endpoints, nimages, interp_structures, jobs,
          np_lcalcpol_output, p_lcalcpol_output, interp_lcalcpol_outputs,
          doc, same_branch>>

\* ---- bounds of the model ------------------------------------------------
\* orders tried: -MaxOrder .. MaxOrder
MaxOrder == 5
\* largest number of interpolation outputs handed to polarization_analysis directly
MaxInterp == 2
\* largest number of fields of a directly handed chain that are missing, None or altered
MaxDefects == 2
\* largest nimages given to interpolate_structures
MaxImages == 3
\* branch candidates raw + k * quantum compared in the properties: k in -MaxWrap .. MaxWrap
MaxWrap == 3

\* ---- Python values ------------------------------------------------------
\* Python's None, for the string-valued fields (no label of the model is this string)
None == "<None>"

Digits == <<"0", "1", "2", "3", "4", "5", "6", "7", "8", "9">>

\* str(i) for an integer i >= 0
RECURSIVE Str(_)
Str(i) == IF i < 10 THEN Digits[i + 1] ELSE Str(i \div 10) \o Digits[(i % 10) + 1]

\* ---- elastic.py ----------------------------------------------------------
\* the list returned for order == 2
StrainStatesOrder2 ==
    << <<1, 0, 0, 0, 0, 0>>,
       <<0, 1, 0, 0, 0, 0>>,
       <<0, 0, 1, 0, 0, 0>>,
       <<0, 0, 0, 2, 0, 0>>,
       <<0, 0, 0, 0, 2, 0>>,
       <<0, 0, 0, 0, 0, 2>> >>

\* the list returned for order == 3
StrainStatesOrder3 ==
    << <<1, 0, 0, 0, 0, 0>>,
       <<0, 1, 0, 0, 0, 0>>,
       <<0, 0, 1, 0, 0, 0>>,
       <<0, 0, 0, 2, 0, 0>>,
       <<0, 0, 0, 0, 2, 0>>,
       <<0, 0, 0, 0, 0, 2>>,
       <<1, 1, 0, 0, 0, 0>>,
       <<1, 0, 1, 0, 0, 0>>,
       <<1, 0, 0, 2, 0, 0>>,
       <<1, 0, 0, 0, 2, 0>>,
       <<0, 1, 1, 0, 0, 0>>,
       <<0, 0, 0, 2, 2, 0>>,
       <<0, 0, 0, 2, 0, 2>>,
       <<0, 0, 0, 0, 2, 2>> >>

\* get_default_strain_states(order): the list, or the ValueError and no list
get_default_strain_states(o) ==
    IF o = 2 THEN [status |-> "ok", states |-> StrainStatesOrder2]
    ELSE IF o = 3 THEN [status |-> "ok", states |-> StrainStatesOrder3]
    ELSE [status |-> "ValueError"]

\* importing elastic.py: List and Tuple are imported under typing.TYPE_CHECKING only
\* and the module has no "from __future__ import annotations", so the return
\* annotation of the def, List[Tuple[...]], raises NameError when the interpreter
\* evaluates annotations at definition time ("eager", CPython before 3.14); with
\* evaluation deferred ("deferred") the module loads
import_elastic(annotations) ==
    IF annotations = "eager" THEN "NameError" ELSE "loaded"

\* from atomate2.common.analysis.elastic import get_default_strain_states, then the
\* call: the NameError of the import, or what the function does
use_get_default_strain_states(o, annotations) ==
    IF import_elastic(annotations) = "NameError" THEN [status |-> "NameError"]
    ELSE get_default_strain_states(o)

\* ---- ferroelectric.py: records -------------------------------------------
Keys == {"energy_per_atom", "energy", "task_label", "structure",
         "zval_dict", "p_elecs", "job_dir", "uuid"}

\* the keys polarization_analysis reads in its loop, in the order it reads them
LoopKeys == <<"energy_per_atom", "energy", "task_label", "structure", "job_dir", "uuid">>

\* get_polarization_output(job): every one of the eight keys, from the job's output
get_polarization_output(job) ==
    [energy_per_atom |-> job.energy_per_atom,
     energy          |-> job.energy,
     task_label      |-> job.task_label,
     structure       |-> job.structure,
     zval_dict       |-> job.zval_dict,
     p_elecs         |-> job.p_elec,
     job_dir         |-> job.dir_name,
     uuid            |-> job.uuid]

\* the output of a finished lcalcpol job of the given name on the given structure:
\* the external calculation, a function of the structure
lcalcpol_job(structure, name) ==
    [energy_per_atom |-> 10 + structure,
     energy          |-> 100 + structure,
     task_label      |-> name,
     structure       |-> structure,
     zval_dict       |-> 4,
     p_elec          |-> <<structure, 0, 0>>,
     dir_name        |-> "/run/" \o name,
     uuid            |-> "uuid-" \o name]

\* ---- ferroelectric.py: the interpolation jobs ----------------------------
\* the key f"interpolation_{i}"
Key(i) == "interpolation_" \o Str(i)

\* p_st.interpolate(np_st, nimages): nimages + 1 structures, the first one p_st, the
\* last one np_st, equally spaced (the displacements used are multiples of nimages)
interpolate(p_st, np_st, n) ==
    [j \in 1..(n + 1) |-> p_st + ((np_st - p_st) * (j - 1)) \div n]

\* a job as made by lcalcpol_maker.make(structure): not run yet
make_job(structure, name) == [structure |-> structure, name |-> name, state |-> "waiting"]

add_interpolation_flow_all(structures) ==
    [k \in {Key(i) : i \in 0..(Len(structures) - 1)} |->
        LET i == CHOOSE i \in 0..(Len(structures) - 1) : Key(i) = k
        IN  make_job(structures[i + 1], "lcalcpol " \o k)]

\* add_interpolation_flow: the jobs of the flow it returns, one lcalcpol job per
\* structure of interp_structures[1:], the i-th of them (from 0) with
\* " interpolation_i" appended to its name and its output keyed interpolation_i;
\* none of them has run when add_interpolation_flow returns
add_interpolation_flow(structures) ==
    [k \in {Key(i) : i \in 0..(Len(structures) - 2)} |->
        LET i == CHOOSE i \in 0..(Len(structures) - 2) : Key(i) = k
        IN  make_job(structures[i + 2], "lcalcpol " \o k)]

\* the lcalcpol jobs of the two endpoint structures, made by the flow that also
\* holds interpolate_structures, add_interpolation_flow and polarization_analysis
endpoint_jobs(p_st, np_st) ==
    [k \in {"np", "p"} |->
        IF k = "np" THEN make_job(np_st, "lcalcpol nonpolar")
        ELSE make_job(p_st, "lcalcpol polar")]

\* the value a reference get_polarization_output(job) resolves to once the job is done
resolved_output(j) == get_polarization_output(j.output)

\* ---- ferroelectric.py: polarization_analysis -----------------------------
ordered_keys_ascending(interp) ==
    [j \in 1..Cardinality(DOMAIN interp) |-> Key(j - 1)]

\* ordered_keys: interpolation_{n-1}, ..., interpolation_0
ordered_keys(interp) ==
    [j \in 1..Cardinality(DOMAIN interp) |-> Key(Cardinality(DOMAIN interp) - j)]

polarization_tasks_polar_first(np, p, interp) ==
    <<p>> \o [j \in 1..Len(ordered_keys(interp)) |-> interp[ordered_keys(interp)[j]]]
          \o <<np>>

\* polarization_tasks: the nonpolar output, the interpolation outputs in the order of
\* ordered_keys, the polar output
polarization_tasks(np, p, interp) ==
    <<np>> \o [j \in 1..Len(ordered_keys(interp)) |-> interp[ordered_keys(interp)[j]]]
           \o <<p>>

task_lbl_own(p, i) == p["task_label"]

\* p["task_label"] or str(i)
task_lbl(p, i) ==
    IF p["task_label"] = None \/ p["task_label"] = "" THEN Str(i) ELSE p["task_label"]

zval_dict_of_first(tasks) ==
    IF "zval_dict" \in DOMAIN tasks[1] THEN tasks[1]["zval_dict"]
    ELSE tasks[Len(tasks)]["zval_dict"]

\* zval_dict = p["zval_dict"], p being the loop variable after the loop: the last task
zval_dict_of(tasks) == tasks[Len(tasks)]["zval_dict"]

\* get_total_ionic_dipole(structure, zval_dict): the sum over the atoms of
\* zval * position; here one atom, displaced along axis a
get_total_ionic_dipole(st, zval) == <<zval * st, 0, 0>>

\* the j-th key lookup polarization_analysis makes on a chain of m tasks, as
\* <<step (from 0), key>>: the six of the loop body step by step, then zval_dict
\* of the last task, then p_elecs step by step
Access(m, j) ==
    IF j <= 6 * m THEN <<(j - 1) \div 6, LoopKeys[((j - 1) % 6) + 1]>>
    ELSE IF j = 6 * m + 1 THEN <<m - 1, "zval_dict">>
    ELSE <<j - 6 * m - 2, "p_elecs">>

\* the lookups that raise KeyError
MissingAccesses(tasks) ==
    {j \in 1..(7 * Len(tasks) + 1) :
        Access(Len(tasks), j)[2] \notin DOMAIN tasks[Access(Len(tasks), j)[1] + 1]}

FirstMissing(tasks) ==
    CHOOSE j \in MissingAccesses(tasks) : \A k \in MissingAccesses(tasks) : j <= k

\* the nine arguments handed to PolarizationDocument.from_pol_output
from_pol_output_args(tasks) ==
    [status            |-> "ok",
     p_elecs           |-> [i \in 1..Len(tasks) |-> tasks[i]["p_elecs"]],
     p_ions            |-> [i \in 1..Len(tasks) |->
                              get_total_ionic_dipole(tasks[i]["structure"],
                                                     zval_dict_of(tasks))],
     structures        |-> [i \in 1..Len(tasks) |-> tasks[i]["structure"]],
     energies          |-> [i \in 1..Len(tasks) |-> tasks[i]["energy"]],
     energies_per_atom |-> [i \in 1..Len(tasks) |-> tasks[i]["energy_per_atom"]],
     zval_dict         |-> zval_dict_of(tasks),
     task_lbls         |-> [i \in 1..Len(tasks) |-> task_lbl(tasks[i], i - 1)],
     job_dirs          |-> [i \in 1..Len(tasks) |-> tasks[i]["job_dir"]],
     uuids             |-> [i \in 1..Len(tasks) |-> tasks[i]["uuid"]]]

HasEveryKey(task) == Keys \subseteq DOMAIN task

polarization_analysis_skipping(np, p, interp) ==
    LET tasks == polarization_tasks(np, p, interp)
        good  == SelectSeq(tasks, HasEveryKey)
    IN  IF good = <<>>
        THEN [status |-> "KeyError",
              step   |-> Access(Len(tasks), FirstMissing(tasks))[1],
              key    |-> Access(Len(tasks), FirstMissing(tasks))[2]]
        ELSE from_pol_output_args(good)

\* polarization_analysis: the KeyError of the first lookup that fails, or the
\* arguments handed to from_pol_output
polarization_analysis(np, p, interp) ==
    LET tasks == polarization_tasks(np, p, interp) IN
    IF MissingAccesses(tasks) # {}
    THEN [status |-> "KeyError",
          step   |-> Access(Len(tasks), FirstMissing(tasks))[1],
          key    |-> Access(Len(tasks), FirstMissing(tasks))[2]]
    ELSE from_pol_output_args(tasks)

\* ---- same-branch polarization (PolarizationDocument.from_pol_output) ------
\* the polarization quantum along each axis, in tenths of the unit
Quantum == 10

\* raw polarization of every step: electronic plus ionic dipole, per axis
raw_polarization(d) ==
    [i \in 1..Len(d.p_elecs) |-> [x \in 1..3 |-> d.p_elecs[i][x] + d.p_ions[i][x]]]

\* the branch-equivalent values of x (x plus a multiple of the quantum) closest to
\* prev: one value, or the two at exactly half a quantum on either side
Nearest(x, prev) ==
    LET d == (x - prev) % Quantum IN
    IF 2 * d < Quantum THEN {prev + d}
    ELSE IF 2 * d > Quantum THEN {prev + d - Quantum}
    ELSE {prev + d, prev + d - Quantum}

\* the same-branch sequences of one axis: the first step keeps its raw value, every
\* later step takes a value nearest to the one chosen for the step before it
RECURSIVE AxisBranches(_)
AxisBranches(r) ==
    IF Len(r) = 1 THEN {r}
    ELSE UNION {{Append(f, v) : v \in Nearest(r[Len(r)], f[Len(f)])} :
                f \in AxisBranches(SubSeq(r, 1, Len(r) - 1))}

Axis(raw, x) == [i \in 1..Len(raw) |-> raw[i][x]]

\* the same-branch polarizations of a chain of raw polarizations
SameBranches(raw) ==
    {[i \in 1..Len(raw) |-> <<A[i], B[i], C[i]>>] :
        A \in AxisBranches(Axis(raw, 1)),
        B \in AxisBranches(Axis(raw, 2)),
        C \in AxisBranches(Axis(raw, 3))}

\* net polarization change: same-branch value of the last step minus that of the first
polarization_change(sb) == [x \in 1..3 |-> sb[Len(sb)][x] - sb[1][x]]

\* ---- chains handed to polarization_analysis directly ----------------------
\* the slots of a chain with n interpolation outputs
Slots(n) == {"np", "p"} \cup {Key(i) : i \in 0..(n - 1)}

\* the complete output of the slot's calculation: displacements 0 (nonpolar),
\* 1 .. n (interpolation_{n-1} .. interpolation_0), n + 1 (polar)
BaseOutput(n, slot) ==
    IF slot = "np" THEN get_polarization_output(lcalcpol_job(0, "nonpolar"))
    ELSE IF slot = "p" THEN get_polarization_output(lcalcpol_job(n + 1, "polar"))
    ELSE LET i == CHOOSE i \in 0..(n - 1) : Key(i) = slot
         IN  get_polarization_output(lcalcpol_job(n - i, slot))

\* what can be wrong with one field, as <<key, kind>>: the key is missing, the value
\* is None, the label is the empty string, the zval table is another one.  None is
\* tried on the fields polarization_analysis itself passes through or tests
\* (task_label, job_dir, uuid); what a None energy, structure or dipole leads to is
\* decided inside from_pol_output and get_total_ionic_dipole.
FieldDefects ==
    << <<"energy_per_atom", "missing">>, <<"energy", "missing">>,
       <<"task_label", "missing">>, <<"task_label", "none">>, <<"task_label", "empty">>,
       <<"structure", "missing">>,
       <<"zval_dict", "missing">>, <<"zval_dict", "other">>,
       <<"p_elecs", "missing">>,
       <<"job_dir", "missing">>, <<"job_dir", "none">>,
       <<"uuid", "missing">>, <<"uuid", "none">> >>

\* the slots of a chain with n interpolation outputs, numbered
SlotSeq(n) ==
    [j \in 1..(n + 2) |-> IF j = 1 THEN "np" ELSE IF j = n + 2 THEN "p" ELSE Key(j - 2)]

\* defect number d is field defect DefectField(d) of slot number DefectSlot(d)
DefectSlot(d) == ((d - 1) \div Len(FieldDefects)) + 1

DefectField(d) == FieldDefects[((d - 1) % Len(FieldDefects)) + 1]

\* the increasing sequences of at most k defect numbers out of 1..m
RECURSIVE DefectSeqs(_, _)
DefectSeqs(m, k) ==
    IF k = 0 THEN {<<>>}
    ELSE LET shorter == DefectSeqs(m, k - 1) IN
         shorter \cup
         UNION {{Append(q, d) : d \in (IF q = <<>> THEN 1 ELSE q[Len(q)] + 1)..m} :
                q \in {q \in shorter : Len(q) = k - 1}}

\* the choices of at most k defects of a chain, no two of them on the same field
DefectSets(n, k) ==
    {q \in DefectSeqs((n + 2) * Len(FieldDefects), k) :
        \A i, j \in 1..Len(q) :
            (i < j /\ DefectSlot(q[i]) = DefectSlot(q[j]))
                => DefectField(q[i])[1] # DefectField(q[j])[1]}

\* the defect chosen for a key of a slot, "ok" if none
DefectOn(q, j, key) ==
    LET hits == {i \in 1..Len(q) : DefectSlot(q[i]) = j /\ DefectField(q[i])[1] = key}
    IN  IF hits = {} THEN "ok" ELSE DefectField(q[CHOOSE i \in hits : TRUE])[2]

\* the output of slot number j of the chain with the defects q
DefectiveOutput(n, j, q) ==
    LET base == BaseOutput(n, SlotSeq(n)[j]) IN
    [key \in {k \in Keys : DefectOn(q, j, k) # "missing"} |->
        IF DefectOn(q, j, key) = "none" THEN None
        ELSE IF DefectOn(q, j, key) = "empty" THEN ""
        ELSE IF DefectOn(q, j, key) = "other" THEN 6
        ELSE base[key]]

\* electronic dipoles and displacements of the synthetic chains
PElecs == {<<0, 0, 0>>, <<1, 0, 0>>, <<9, 0, 0>>, <<0, 5, 0>>}

SyntheticOutput(n, slot, pe, st) ==
    [BaseOutput(n, slot) EXCEPT !["p_elecs"] = pe, !["structure"] = st]

\* ---- the state machine ----------------------------------------------------
NoDict == <<>>

Init ==
    /\ pc = "idle"
    /\ order = 0
    /\ strain_states = [status |-> "none"]
    /\ endpoints = [p_st |-> 0, np_st |-> 0]
    /\ nimages = 0
    /\ interp_structures = <<>>
    /\ jobs = NoDict
    /\ np_lcalcpol_output = NoDict
    /\ p_lcalcpol_output = NoDict
    /\ interp_lcalcpol_outputs = NoDict
    /\ doc = [status |-> "none"]
    /\ same_branch = [status |-> "none"]

\* a program imports get_default_strain_states and calls it
GetDefaultStrainStates ==
    /\ pc = "idle"
    /\ \E o \in (0 - MaxOrder)..MaxOrder, annotations \in {"eager", "deferred"} :
          /\ order' = o
          /\ strain_states' = use_get_default_strain_states(o, annotations)
    /\ pc' = "strain_done"
    /\ UNCHANGED <<endpoints, nimages, interp_structures, jobs, np_lcalcpol_output,
                   p_lcalcpol_output, interp_lcalcpol_outputs, doc, same_branch>>

\* the ferroelectric flow is made for a polar and a nonpolar structure and nimages:
\* the two endpoint lcalcpol jobs wait to be run
MakeFerroelectricFlow ==
    /\ pc = "idle"
    /\ \E n \in 1..MaxImages, scale \in 1..2 :
          /\ nimages' = n
          /\ endpoints' = [p_st |-> scale * n, np_st |-> 0]
          /\ jobs' = endpoint_jobs(scale * n, 0)
    /\ pc' = "flow_made"
    /\ UNCHANGED <<order, strain_states, interp_structures, np_lcalcpol_output,
                   p_lcalcpol_output, interp_lcalcpol_outputs, doc, same_branch>>

\* the job interpolate_structures: writes interp_structures.json
InterpolateStructures ==
    /\ pc = "flow_made"
    /\ interp_structures' = interpolate(endpoints.p_st, endpoints.np_st, nimages)
    /\ pc' = "interpolated"
    /\ UNCHANGED <<order, strain_states, endpoints, nimages, jobs, np_lcalcpol_output,
                   p_lcalcpol_output, interp_lcalcpol_outputs, doc, same_branch>>

\* the job add_interpolation_flow: reads interp_structures.json and is replaced by
\* the flow of the interpolation jobs, which wait to be run
AddInterpolationFlow ==
    /\ pc = "interpolated"
    /\ jobs' = jobs @@ add_interpolation_flow(interp_structures)
    /\ pc' = "flow_added"
    /\ UNCHANGED <<order, strain_states, endpoints, nimages, interp_structures,
                   np_lcalcpol_output, p_lcalcpol_output, interp_lcalcpol_outputs,
                   doc, same_branch>>

\* the job manager runs one waiting lcalcpol job: it finishes with its output
RunLcalcpolJob ==
    /\ pc \in {"flow_made", "interpolated", "flow_added"}
    /\ \E k \in DOMAIN jobs :
          /\ jobs[k].state = "waiting"
          /\ jobs' = [jobs EXCEPT ![k] =
                        [structure |-> jobs[k].structure, name |-> jobs[k].name,
                         state |-> "done",
                         output |-> lcalcpol_job(jobs[k].structure, jobs[k].name)]]
    /\ UNCHANGED <<pc, order, strain_states, endpoints, nimages, interp_structures,
                   np_lcalcpol_output, p_lcalcpol_output, interp_lcalcpol_outputs,
                   doc, same_branch>>

\* the job manager runs one waiting lcalcpol job: it fails, and polarization_analysis,
\* which needs its output, is never run
FailLcalcpolJob ==
    /\ pc \in {"flow_made", "interpolated", "flow_added"}
    /\ \E k \in DOMAIN jobs :
          /\ jobs[k].state = "waiting"
          /\ jobs' = [jobs EXCEPT ![k] =
                        [structure |-> jobs[k].structure, name |-> jobs[k].name,
                         state |-> "failed"]]
    /\ UNCHANGED <<pc, order, strain_states, endpoints, nimages, interp_structures,
                   np_lcalcpol_output, p_lcalcpol_output, interp_lcalcpol_outputs,
                   doc, same_branch>>

\* every lcalcpol job is done: the references in the arguments of
\* polarization_analysis are resolved
ResolveReferences ==
    /\ pc = "flow_added"
    /\ \A k \in DOMAIN jobs : jobs[k].state = "done"
    /\ np_lcalcpol_output' = resolved_output(jobs["np"])
    /\ p_lcalcpol_output' = resolved_output(jobs["p"])
    /\ interp_lcalcpol_outputs' =
          [k \in DOMAIN jobs \ {"np", "p"} |-> resolved_output(jobs[k])]
    /\ pc' = "ready"
    /\ UNCHANGED <<order, strain_states, endpoints, nimages, interp_structures, jobs,
                   doc, same_branch>>

\* polarization_analysis is handed a chain in which up to MaxDefects fields are
\* missing, None, empty or altered
SubmitDefective ==
    /\ pc = "idle"
    /\ \E n \in 0..MaxInterp :
       \E q \in DefectSets(n, MaxDefects) :
          /\ np_lcalcpol_output' = DefectiveOutput(n, 1, q)
          /\ p_lcalcpol_output' = DefectiveOutput(n, n + 2, q)
          /\ interp_lcalcpol_outputs' =
                [k \in Slots(n) \ {"np", "p"} |->
                    DefectiveOutput(n, CHOOSE j \in 2..(n + 1) : SlotSeq(n)[j] = k, q)]
    /\ pc' = "ready"
    /\ UNCHANGED <<order, strain_states, endpoints, nimages, interp_structures, jobs,
                   doc, same_branch>>

\* polarization_analysis is handed a complete synthetic chain of given dipoles, all of
\* its steps calculations of one structure
SubmitSynthetic ==
    /\ pc = "idle"
    /\ \E n \in 0..MaxInterp :
       \E pe \in [Slots(n) -> PElecs], st \in 0..1 :
          /\ np_lcalcpol_output' = SyntheticOutput(n, "np", pe["np"], st)
          /\ p_lcalcpol_output' = SyntheticOutput(n, "p", pe["p"], st)
          /\ interp_lcalcpol_outputs' =
                [k \in Slots(n) \ {"np", "p"} |-> SyntheticOutput(n, k, pe[k], st)]
    /\ pc' = "ready"
    /\ UNCHANGED <<order, strain_states, endpoints, nimages, interp_structures, jobs,
                   doc, same_branch>>

\* the job polarization_analysis
PolarizationAnalysis ==
    /\ pc = "ready"
    /\ doc' = polarization_analysis(np_lcalcpol_output, p_lcalcpol_output,
                                    interp_lcalcpol_outputs)
    /\ pc' = "analysed"
    /\ UNCHANGED <<order, strain_states, endpoints, nimages, interp_structures, jobs,
                   np_lcalcpol_output, p_lcalcpol_output, interp_lcalcpol_outputs,
                   same_branch>>

\* from_pol_output: the same-branch polarization and the net change
SameBranchPolarization ==
    /\ pc = "analysed"
    /\ doc.status = "ok"
    /\ \E sb \in SameBranches(raw_polarization(doc)) :
          same_branch' = [status |-> "ok", values |-> sb,
                          change |-> polarization_change(sb)]
    /\ pc' = "done"
    /\ UNCHANGED <<order, strain_states, endpoints, nimages, interp_structures, jobs,
                   np_lcalcpol_output, p_lcalcpol_output, interp_lcalcpol_outputs, doc>>

Next ==
    \/ GetDefaultStrainStates
    \/ MakeFerroelectricFlow
    \/ InterpolateStructures
    \/ AddInterpolationFlow
    \/ RunLcalcpolJob
    \/ FailLcalcpolJob
    \/ ResolveReferences
    \/ SubmitDefective
    \/ SubmitSynthetic
    \/ PolarizationAnalysis
    \/ SameBranchPolarization

Spec == Init /\ [][Next]_vars

\* ---- properties: get_default_strain_states --------------------------------
StrainDone == pc = "strain_done"

\* C1: a program that uses get_default_strain_states(2) gets exactly 6 states in Voigt order; state k
\* is nonzero only in component k, where it is 1 for k = 1..3 and 2 for k = 4..6.
C1_Order2Singles ==
    (StrainDone /\ order = 2) =>
        /\ strain_states.status = "ok"
        /\ Len(strain_states.states) = 6
        /\ \A k \in 1..6 :
              /\ Len(strain_states.states[k]) = 6
              /\ \A j \in 1..6 :
                    strain_states.states[k][j] =
                        IF j # k THEN 0 ELSE IF k <= 3 THEN 1 ELSE 2

NonZero(t) == {j \in 1..6 : t[j] # 0}

\* the coupled states the claim names: xx+yy, xx+zz, xx+yz, xx+xz, yy+zz, yz+xz, yz+xy
NamedCouples == {{1, 2}, {1, 3}, {1, 4}, {1, 5}, {2, 3}, {4, 5}, {4, 6}}

\* C2: a program that uses get_default_strain_states(3) gets 14 pairwise distinct states: the 6 states
\* of order 2 in the same order, then 8 states with exactly two nonzero components
\* (1 on a normal component, 2 on a shear component), the seven named couples among
\* them; the order-2 states are a strict subset of the order-3 states.
C2_Order3Coupled ==
    (StrainDone /\ order = 3) =>
        LET s == strain_states.states IN
        /\ strain_states.status = "ok"
        /\ Len(s) = 14
        /\ \A k, l \in 1..14 : k # l => s[k] # s[l]
        /\ SubSeq(s, 1, 6) = get_default_strain_states(2).states
        /\ \A k \in 7..14 :
              /\ Cardinality(NonZero(s[k])) = 2
              /\ \A j \in NonZero(s[k]) : s[k][j] = IF j <= 3 THEN 1 ELSE 2
        /\ \A c \in NamedCouples : \E k \in 7..14 : NonZero(s[k]) = c
        /\ {get_default_strain_states(2).states[k] : k \in 1..6} \subseteq {s[k] : k \in 1..14}
        /\ \E k \in 1..14 : \A l \in 1..6 : s[k] # get_default_strain_states(2).states[l]

\* C3: a use with any order other than 2 and 3 ends in ValueError with no list returned:
\* no default, no clamping.
C3_InvalidOrder ==
    (StrainDone /\ order # 2 /\ order # 3) =>
        /\ strain_states.status = "ValueError"
        /\ "states" \notin DOMAIN strain_states

\* ---- properties: polarization_analysis ------------------------------------
Analysed == pc \in {"analysed", "done"}

NInterp == Cardinality(DOMAIN interp_lcalcpol_outputs)

\* the chain the claims describe: nonpolar, interpolation_{n-1} .. interpolation_0, polar
Chain(i) ==
    IF i = 1 THEN np_lcalcpol_output
    ELSE IF i = NInterp + 2 THEN p_lcalcpol_output
    ELSE interp_lcalcpol_outputs[Key(NInterp + 1 - i)]

Required == {"energy", "energy_per_atom", "structure", "p_elecs"}

Optional == {"task_label", "job_dir", "uuid"}

\* C4: the chain has n + 2 steps, nonpolar first, polar last, the interpolation
\* outputs between them in decreasing index order; every per-step sequence handed to
\* the result has length n + 2 and its entry i comes from step i.
C4_ChainAssembly ==
    (Analysed /\ doc.status = "ok") =>
        /\ \A f \in {"p_elecs", "p_ions", "structures", "energies", "energies_per_atom",
                     "task_lbls", "job_dirs", "uuids"} :
              Len(doc[f]) = NInterp + 2 /\ Len(doc[f]) >= 2
        /\ \A i \in 1..(NInterp + 2) :
              /\ doc.p_elecs[i] = Chain(i)["p_elecs"]
              /\ doc.structures[i] = Chain(i)["structure"]
              /\ doc.energies[i] = Chain(i)["energy"]
              /\ doc.energies_per_atom[i] = Chain(i)["energy_per_atom"]
              /\ doc.job_dirs[i] = Chain(i)["job_dir"]
              /\ doc.uuids[i] = Chain(i)["uuid"]
              /\ doc.task_lbls[i] \in {Chain(i)["task_label"], Digits[i]}
              /\ doc.p_ions[i][1] = doc.zval_dict * Chain(i)["structure"]

C4_Witness ==
    /\ Analysed
    /\ doc.status = "ok"
    /\ NInterp = 2
    /\ doc.structures = <<0, 1, 2, 3>>
    /\ doc.task_lbls = <<"nonpolar", "interpolation_1", "interpolation_0", "polar">>

\* C6: a chain in which some step lacks energy, energy per atom, structure or
\* electronic dipole ends in an error raised for a key that step really lacks, and
\* nothing is handed on: no substituted value, no partial result.
C6_MissingRequired ==
    (Analysed /\ \E i \in 1..(NInterp + 2) : ~(Required \subseteq DOMAIN Chain(i))) =>
        /\ doc.status = "KeyError"
        /\ DOMAIN doc = {"status", "step", "key"}
        /\ doc.key \notin DOMAIN Chain(doc.step + 1)
        /\ same_branch.status = "none"

C6_Witness ==
    /\ Analysed
    /\ NInterp = 2
    /\ "p_elecs" \notin DOMAIN Chain(2)
    /\ Keys \ {"p_elecs"} \subseteq DOMAIN Chain(2)
    /\ doc.status = "KeyError"
    /\ doc.key = "p_elecs"
    /\ doc.step = 1

\* C7: the zval table used is that of the last step alone, whatever the other steps
\* hold and whether they have one: it is applied to every structure for the ionic
\* dipole and it is the one passed on; the other tables are never looked at.
C7_ZvalOfPolar ==
    /\ (Analysed /\ doc.status = "ok") =>
          /\ doc.zval_dict = p_lcalcpol_output["zval_dict"]
          /\ \A i \in 1..(NInterp + 2) :
                doc.p_ions[i] =
                    <<p_lcalcpol_output["zval_dict"] * Chain(i)["structure"], 0, 0>>
    /\ (/\ Analysed
        /\ \A i \in 1..(NInterp + 2) : Keys \ {"zval_dict"} \subseteq DOMAIN Chain(i)
        /\ "zval_dict" \in DOMAIN p_lcalcpol_output) => doc.status = "ok"

C7_Witness ==
    /\ Analysed
    /\ doc.status = "ok"
    /\ NInterp >= 1
    /\ "zval_dict" \notin DOMAIN np_lcalcpol_output
    /\ "zval_dict" \in DOMAIN interp_lcalcpol_outputs[Key(0)]
    /\ interp_lcalcpol_outputs[Key(0)]["zval_dict"] # p_lcalcpol_output["zval_dict"]
    /\ doc.p_ions[NInterp + 2][1] # 0

RequiredPresent ==
    /\ \A i \in 1..(NInterp + 2) : Required \subseteq DOMAIN Chain(i)
    /\ "zval_dict" \in DOMAIN p_lcalcpol_output

\* C8: the task label, the job directory and the unique id are optional: with the
\* required fields present in every record (and the zval table in the polar one), a
\* result is produced also when a record has no task label, no job directory or no
\* unique id.
C8_OptionalFields == (Analysed /\ RequiredPresent) => doc.status = "ok"

\* C9: the label handed on for step i (from 0) is the record's own task label when
\* it has one and the string of i when it has none (None or empty); the labels of
\* the other steps are their own.
C9_LabelDefault ==
    (Analysed /\ doc.status = "ok") =>
        \A i \in 1..(NInterp + 2) :
            doc.task_lbls[i] =
                IF Chain(i)["task_label"] \in {None, ""} THEN Digits[i]
                ELSE Chain(i)["task_label"]

C9_Witness ==
    /\ Analysed
    /\ doc.status = "ok"
    /\ NInterp = 2
    /\ Chain(3)["task_label"] = None
    /\ doc.task_lbls = <<"nonpolar", "interpolation_1", "2", "polar">>

\* ---- properties: same-branch polarization ----------------------------------
Abs(x) == IF x < 0 THEN 0 - x ELSE x

Wraps == (0 - MaxWrap)..MaxWrap

\* every step after the first takes, on every axis, a value raw + k * quantum that is
\* at least as close to the value chosen for the step before as any other such value,
\* so consecutive values differ by at most half a quantum
NearestBranchWalk ==
    LET raw == raw_polarization(doc)
        sb  == same_branch.values
    IN  /\ Len(sb) = Len(raw)
        /\ \A i \in 2..Len(sb) : \A x \in 1..3 :
              /\ \E k \in Wraps : sb[i][x] = raw[i][x] + k * Quantum
              /\ \A k \in Wraps :
                    Abs(sb[i][x] - sb[i - 1][x]) <= Abs(raw[i][x] + k * Quantum - sb[i - 1][x])
              /\ 2 * Abs(sb[i][x] - sb[i - 1][x]) <= Quantum

\* the chain of the example: raw values 0, 0.1, 0.9 on axis a (in tenths: 0, 1, 9),
\* zero on the other axes, no ionic contribution
ExampleChain ==
    /\ NInterp = 1
    /\ np_lcalcpol_output["p_elecs"] = <<0, 0, 0>>
    /\ interp_lcalcpol_outputs[Key(0)]["p_elecs"] = <<1, 0, 0>>
    /\ p_lcalcpol_output["p_elecs"] = <<9, 0, 0>>
    /\ \A i \in 1..3 : Chain(i)["structure"] = 0

\* C5 as stated: the nearest-branch walk, and for the example same-branch values
\* 0, 0.1, -0.1 with net change -0.3 on axis a and 0 on the other axes.
C5_Original ==
    pc = "done" =>
        /\ NearestBranchWalk
        /\ ExampleChain =>
              /\ same_branch.values = << <<0, 0, 0>>, <<1, 0, 0>>, <<0 - 1, 0, 0>> >>
              /\ same_branch.change = <<0 - 3, 0, 0>>

\* C5 amended: the nearest-branch walk, and for the example same-branch values
\* 0, 0.1, -0.1 with net change -0.1 on axis a (the polar value -0.1 minus the
\* nonpolar value 0) and 0 on the other axes.
C5_NearestBranch ==
    pc = "done" =>
        /\ NearestBranchWalk
        /\ ExampleChain =>
              /\ same_branch.values = << <<0, 0, 0>>, <<1, 0, 0>>, <<0 - 1, 0, 0>> >>
              /\ same_branch.change = <<0 - 1, 0, 0>>

C5_Witness ==
    /\ pc = "done"
    /\ ExampleChain
    /\ raw_polarization(doc) = << <<0, 0, 0>>, <<1, 0, 0>>, <<9, 0, 0>> >>
    /\ same_branch.values[3] = <<0 - 1, 0, 0>>

\* ---- properties: the interpolation flow ------------------------------------
FromFlow == nimages > 0

\* C10 as stated: for the outputs of add_interpolation_flow the chain moves strictly
\* toward the polar structure at every step, so no two steps are calculations of the
\* same structure.
C10_Original ==
    (FromFlow /\ Analysed /\ doc.status = "ok") =>
        \A i \in 1..(Len(doc.structures) - 1) :
            Abs(doc.structures[i + 1] - interp_structures[1])
                < Abs(doc.structures[i] - interp_structures[1])

\* C10 amended: the chain has nimages + 2 steps and never moves away from the polar
\* structure; its first two steps, the nonpolar output and interpolation_{nimages-1},
\* are calculations of the same nonpolar structure, and from the second step on
\* it moves strictly toward the polar structure, which is the last step.
C10_FlowOrder ==
    (FromFlow /\ Analysed /\ doc.status = "ok") =>
        /\ Len(doc.structures) = nimages + 2
        /\ doc.structures[1] = interp_structures[nimages + 1]
        /\ doc.structures[2] = doc.structures[1]
        /\ doc.structures[nimages + 2] = interp_structures[1]
        /\ \A i \in 2..(nimages + 1) :
              Abs(doc.structures[i + 1] - interp_structures[1])
                  < Abs(doc.structures[i] - interp_structures[1])

C10_Witness ==
    /\ FromFlow
    /\ Analysed
    /\ doc.status = "ok"
    /\ nimages = 3
    /\ doc.structures = <<0, 0, 1, 2, 3>>

====
